---- MODULE Spec2Model ----
(***************************************************************************)
(* Model of lab5/src/main.rs: the BufferDePantalla frame buffer (colour    *)
(* and depth arrays with a z-test), ColorRGB packing, the sphere mesh      *)
(* generator generar_esfera and the winit event loop of main with          *)
(* EstadoAplicacion::actualizar / renderizar.                              *)
(***************************************************************************)
EXTENDS Integers, Sequences, FiniteSets, TLC

(***************************************************************************)
(* Bounds of the model.                                                    *)
(***************************************************************************)
\* number of pixels of the modelled surface texture
NumPixeles == 1
\* window widths and heights are 0..MaxLado
MaxLado == 2
\* cursor coordinates are 0..MaxPos, in units of 100 physical pixels
MaxPos == 2
\* the yaw is followed while it stays within -MaxYaw..MaxYaw, in units of 0.5 rad
MaxYaw == 4
\* largest number of pixels (w * h) of a modelled BufferDePantalla
MaxPixeles == 2
\* finite depths are 0..MaxProf
MaxProf == 1

(***************************************************************************)
(* f32 depth values: the finite depths 0..MaxProf, +infinity and NaN.      *)
(* Every comparison with NaN is false, as in IEEE 754.                     *)
(***************************************************************************)
F32_INFINITY == MaxProf + 1
F32_NAN == MaxProf + 2
Profundidades == 0..(MaxProf + 2)

\* a < b on f32
MenorF32(a, b) == a # F32_NAN /\ b # F32_NAN /\ a < b

\* u32 colours used as inputs: 0x000000 and 0xFFFFFF
Colores == {0, 16777215}

VARIABLES
    fb,            \* BufferDePantalla: ancho, alto, buffer_colores, buffer_profundidad, color_fondo, color_actual
    llamadas,      \* history: pixel index -> an in-range dibujar_punto call was made since the last clear
    prof_minima,   \* history: pixel index -> minimum (NaN ignored) of the depths passed since the last clear
    color_minimo,  \* history: pixel index -> color_actual at the first call that passed prof_minima
    ultima_limpieza \* history: "ninguna" unless the last call was limpiar; then whether it found the buffers written

varsBuffer == <<fb, llamadas, prof_minima, color_minimo, ultima_limpieza>>

VARIABLES
    par,            \* two writes to one pixel: x, y, color_a, prof_a, color_b, prof_b
    fb_ab,          \* a BufferDePantalla that receives write A, then write B
    fb_ba,          \* a BufferDePantalla that receives write B, then write A
    pendientes_ab,  \* writes still to be made on fb_ab
    pendientes_ba   \* writes still to be made on fb_ba

varsOrden == <<par, fb_ab, fb_ba, pendientes_ab, pendientes_ba>>

VARIABLES
    color_rgb,     \* a ColorRGB: rojo, verde, azul
    hexadecimal    \* the u32 returned by a_hexadecimal for color_rgb, -1 before the call

varsColor == <<color_rgb, hexadecimal>>

VARIABLES
    perfil,        \* build profile: "debug" (integer overflow panics) or "release" (it wraps)
    esfera         \* generar_esfera in progress: argument, loop position, sizes of the two Vecs

varsEsfera == <<perfil, esfera>>

VARIABLES
    pc,                 \* position of the event loop: "espera" between events, a step of the RedrawRequested handler, or "salida"
    redraw_solicitado,  \* ventana.request_redraw() was called and RedrawRequested is not yet delivered
    buffer_uniformes,   \* contents of the shared uniform buffer as of the next submit: tipo_render, estrella
    buffers_planeta,    \* contents of the per-planet uniform buffers of this frame
    codificador,        \* the command encoder: whether the pass clears on load, and the bind group of each draw
    indice_bucle,             \* loop index of the star loop and of the planet loop
    textura,            \* the surface texture: pixel -> what is stored there
    pantalla,           \* the texture as last presented
    presentado,         \* some frame was presented
    seleccion,          \* history: the shader index of the last select-shader key, -1 if none
    tipos_usados        \* history: the tipo_render values read by the draws submitted since that key

varsLoop == <<pc, redraw_solicitado, buffer_uniformes, buffers_planeta, codificador, indice_bucle,
              textura, pantalla, presentado, seleccion, tipos_usados>>

VARIABLES
    tamano_ventana,      \* EstadoAplicacion.tamano_ventana: width, height
    configuracion,       \* EstadoAplicacion.configuracion: width, height
    dimension_pantalla,  \* EstadoAplicacion.datos_uniformes.dimension_pantalla: two f32
    superficie,          \* the surface: the size it was last configured with, and whether it is usable
    mouse_presionado,    \* EstadoAplicacion.mouse_presionado
    posicion_mouse,      \* EstadoAplicacion.posicion_mouse: Option of a position
    rotacion_camara,     \* EstadoAplicacion.rotacion_camara: yaw, pitch
    configure_llamado,   \* history: the last redimensionar call called superficie.configure
    ultimo_valido        \* history: the initial size, then the last requested size with width > 0 and height > 0

varsEntrada == <<tamano_ventana, configuracion, dimension_pantalla, superficie, mouse_presionado,
                 posicion_mouse, rotacion_camara, configure_llamado, ultimo_valido>>

vars == <<varsBuffer, varsOrden, varsColor, varsEsfera, varsLoop, varsEntrada>>

(***************************************************************************)
(* BufferDePantalla                                                        *)
(***************************************************************************)
Indices(b) == 0..(b.ancho * b.alto - 1)

\* vec![valor; w * h]
VecLleno(n, valor) == [i \in 0..(n - 1) |-> valor]

nuevo(w, h) ==
    [ancho |-> w, alto |-> h,
     buffer_colores |-> VecLleno(w * h, 0),
     buffer_profundidad |-> VecLleno(w * h, F32_INFINITY),
     color_fondo |-> 0,
     color_actual |-> 16777215]

\* limpiar filling the colour buffer with color_actual instead of color_fondo
limpiar_con_color_actual(b) ==
    [b EXCEPT !.buffer_colores = [i \in DOMAIN b.buffer_colores |-> b.color_actual],
              !.buffer_profundidad = [i \in DOMAIN b.buffer_profundidad |-> F32_INFINITY]]

limpiar(b) ==
    [b EXCEPT !.buffer_colores = [i \in DOMAIN b.buffer_colores |-> b.color_fondo],
              !.buffer_profundidad = [i \in DOMAIN b.buffer_profundidad |-> F32_INFINITY]]

\* dibujar_punto with the depth test prof <= stored
dibujar_punto_menor_o_igual(b, x, y, prof) ==
    IF x < b.ancho /\ y < b.alto
    THEN LET indice == y * b.ancho + x
         IN  IF prof # F32_NAN /\ prof <= b.buffer_profundidad[indice]
             THEN [b EXCEPT !.buffer_colores[indice] = b.color_actual,
                            !.buffer_profundidad[indice] = prof]
             ELSE b
    ELSE b

\* dibujar_punto without a depth test: the last write wins
dibujar_punto_sin_prueba(b, x, y, prof) ==
    IF x < b.ancho /\ y < b.alto
    THEN LET indice == y * b.ancho + x
         IN  [b EXCEPT !.buffer_colores[indice] = b.color_actual,
                       !.buffer_profundidad[indice] = prof]
    ELSE b

\* dibujar_punto computing the index without the row: indice = x
dibujar_punto_sin_fila(b, x, y, prof) ==
    IF x < b.ancho /\ y < b.alto
    THEN LET indice == x
         IN  IF MenorF32(prof, b.buffer_profundidad[indice])
             THEN [b EXCEPT !.buffer_colores[indice] = b.color_actual,
                            !.buffer_profundidad[indice] = prof]
             ELSE b
    ELSE b

dibujar_punto(b, x, y, prof) ==
    IF x < b.ancho /\ y < b.alto
    THEN LET indice == y * b.ancho + x
         IN  IF MenorF32(prof, b.buffer_profundidad[indice])
             THEN [b EXCEPT !.buffer_colores[indice] = b.color_actual,
                            !.buffer_profundidad[indice] = prof]
             ELSE b
    ELSE b

establecer_color_fondo(b, color) == [b EXCEPT !.color_fondo = color]

establecer_color_actual(b, color) == [b EXCEPT !.color_actual = color]

(***************************************************************************)
(* History of the calls made on fb since the last clear.                   *)
(***************************************************************************)
\* the smaller of two depths, a NaN operand being ignored
MinimoF32(a, b) ==
    IF a = F32_NAN THEN b
    ELSE IF b = F32_NAN THEN a
    ELSE IF b < a THEN b ELSE a

\* some pixel holds a colour other than the background or a depth other than +infinity
EstaEscrito(b) ==
    \E i \in Indices(b) :
        b.buffer_colores[i] # b.color_fondo \/ b.buffer_profundidad[i] # F32_INFINITY

SinLlamadas(b) == [i \in Indices(b) |-> FALSE]
SinProfundidad(b) == [i \in Indices(b) |-> F32_NAN]
SinColor(b) == [i \in Indices(b) |-> 0]

(***************************************************************************)
(* Specification of a BufferDePantalla under arbitrary calls.              *)
(***************************************************************************)
InitBuffer ==
    /\ \E w \in 0..MaxPixeles, h \in 0..MaxPixeles :
          /\ w * h <= MaxPixeles
          /\ fb = nuevo(w, h)
    /\ llamadas = SinLlamadas(fb)
    /\ prof_minima = SinProfundidad(fb)
    /\ color_minimo = SinColor(fb)
    /\ ultima_limpieza = "ninguna"

Limpiar ==
    /\ fb' = limpiar(fb)
    /\ llamadas' = SinLlamadas(fb)
    /\ prof_minima' = SinProfundidad(fb)
    /\ color_minimo' = SinColor(fb)
    /\ ultima_limpieza' = IF EstaEscrito(fb) THEN "sobre_escrito" ELSE "sobre_limpio"

DibujarPunto(x, y, prof) ==
    /\ fb' = dibujar_punto(fb, x, y, prof)
    /\ IF x < fb.ancho /\ y < fb.alto
       THEN LET i == y * fb.ancho + x
                m == IF llamadas[i] THEN MinimoF32(prof_minima[i], prof) ELSE prof
            IN  /\ llamadas' = [llamadas EXCEPT ![i] = TRUE]
                /\ prof_minima' = [prof_minima EXCEPT ![i] = m]
                /\ color_minimo' =
                      IF llamadas[i] /\ m = prof_minima[i]
                      THEN color_minimo
                      ELSE [color_minimo EXCEPT ![i] = fb.color_actual]
       ELSE UNCHANGED <<llamadas, prof_minima, color_minimo>>
    /\ ultima_limpieza' = "ninguna"

EstablecerColorFondo(color) ==
    /\ fb' = establecer_color_fondo(fb, color)
    /\ ultima_limpieza' = "ninguna"
    /\ UNCHANGED <<llamadas, prof_minima, color_minimo>>

EstablecerColorActual(color) ==
    /\ fb' = establecer_color_actual(fb, color)
    /\ ultima_limpieza' = "ninguna"
    /\ UNCHANGED <<llamadas, prof_minima, color_minimo>>

NextBuffer ==
    \/ Limpiar
    \/ \E x \in 0..fb.ancho, y \in 0..fb.alto, prof \in Profundidades : DibujarPunto(x, y, prof)
    \/ \E color \in Colores : EstablecerColorFondo(color)
    \/ \E color \in Colores : EstablecerColorActual(color)

\* the buffer of Spec is not used by the other specifications
BufferSinUso ==
    /\ fb = nuevo(0, 0)
    /\ llamadas = SinLlamadas(fb)
    /\ prof_minima = SinProfundidad(fb)
    /\ color_minimo = SinColor(fb)
    /\ ultima_limpieza = "ninguna"

(***************************************************************************)
(* Two writes to one pixel of a freshly cleared BufferDePantalla, made in  *)
(* both orders on two buffers.                                             *)
(***************************************************************************)
\* a != b on f32: true as soon as one operand is NaN
DistintoF32(a, b) == a = F32_NAN \/ b = F32_NAN \/ a # b

OrdenSinUso ==
    /\ par = [x |-> 0, y |-> 0, color_a |-> 0, prof_a |-> 0, color_b |-> 0, prof_b |-> 0]
    /\ fb_ab = nuevo(0, 0)
    /\ fb_ba = nuevo(0, 0)
    /\ pendientes_ab = <<>>
    /\ pendientes_ba = <<>>

InitOrden ==
    /\ \E w \in 1..MaxPixeles, h \in 1..MaxPixeles, fondo \in Colores :
          /\ w * h <= MaxPixeles
          /\ fb_ab = limpiar(establecer_color_fondo(nuevo(w, h), fondo))
          /\ fb_ba = fb_ab
          /\ \E x \in 0..(w - 1), y \in 0..(h - 1), ca \in Colores, cb \in Colores,
                 pa \in Profundidades, pb \in Profundidades :
                /\ DistintoF32(pa, pb)
                /\ par = [x |-> x, y |-> y, color_a |-> ca, prof_a |-> pa,
                          color_b |-> cb, prof_b |-> pb]
    /\ pendientes_ab = <<"a", "b">>
    /\ pendientes_ba = <<"b", "a">>

\* establecer_color_actual followed by dibujar_punto at the pixel of par
Escribir(b, cual) ==
    IF cual = "a"
    THEN dibujar_punto(establecer_color_actual(b, par.color_a), par.x, par.y, par.prof_a)
    ELSE dibujar_punto(establecer_color_actual(b, par.color_b), par.x, par.y, par.prof_b)

EscribirAB ==
    /\ pendientes_ab # <<>>
    /\ fb_ab' = Escribir(fb_ab, Head(pendientes_ab))
    /\ pendientes_ab' = Tail(pendientes_ab)
    /\ UNCHANGED <<par, fb_ba, pendientes_ba>>

EscribirBA ==
    /\ pendientes_ba # <<>>
    /\ fb_ba' = Escribir(fb_ba, Head(pendientes_ba))
    /\ pendientes_ba' = Tail(pendientes_ba)
    /\ UNCHANGED <<par, fb_ab, pendientes_ab>>

NextOrden == EscribirAB \/ EscribirBA

(***************************************************************************)
(* ColorRGB                                                                *)
(***************************************************************************)
\* u8 channel values drawn as inputs
Canales == {0, 1, 2, 15, 16, 127, 128, 255}

\* bit i of v
RECURSIVE Bit(_, _)
Bit(v, i) == IF i = 0 THEN v % 2 ELSE Bit(v \div 2, i - 1)

\* `canal as u32`: the 32 bits of the value, bit 0 the lowest
ComoU32(v) == [i \in 0..31 |-> Bit(v, i)]

\* a << k on u32: the bits shifted past bit 31 are lost
DesplazarIzquierda(a, k) == [i \in 0..31 |-> IF i >= k THEN a[i - k] ELSE 0]

\* a | b on u32
OBits(a, b) == [i \in 0..31 |-> IF a[i] = 1 \/ b[i] = 1 THEN 1 ELSE 0]

\* the number whose bits from bit i upwards are those of a
RECURSIVE ValorDesde(_, _)
ValorDesde(a, i) == IF i > 31 THEN 0 ELSE a[i] + 2 * ValorDesde(a, i + 1)

Valor(a) == ValorDesde(a, 0)

\* a_hexadecimal shifting the red channel by 8 bits
a_hexadecimal_rojo_8(c) ==
    Valor(OBits(OBits(DesplazarIzquierda(ComoU32(c.rojo), 8),
                      DesplazarIzquierda(ComoU32(c.verde), 8)),
                ComoU32(c.azul)))

a_hexadecimal(c) ==
    Valor(OBits(OBits(DesplazarIzquierda(ComoU32(c.rojo), 16),
                      DesplazarIzquierda(ComoU32(c.verde), 8)),
                ComoU32(c.azul)))

ColorSinUso ==
    /\ color_rgb = [rojo |-> 0, verde |-> 0, azul |-> 0]
    /\ hexadecimal = -1

\* ColorRGB::nuevo(r, g, b)
InitColor ==
    /\ \E r \in Canales, g \in Canales, b \in Canales :
          color_rgb = [rojo |-> r, verde |-> g, azul |-> b]
    /\ hexadecimal = -1

AHexadecimal ==
    /\ hexadecimal = -1
    /\ hexadecimal' = a_hexadecimal(color_rgb)
    /\ UNCHANGED color_rgb

(***************************************************************************)
(* generar_esfera, one step per iteration of its outer loops.              *)
(***************************************************************************)
\* the arguments for which generar_esfera is run
Subdivisiones == {0, 1, 2, 3, 4, 50, 255, 256}

\* v as u16
ComoU16(v) == v % 65536

\* the values pushed for (lat, lon); u16 additions shown before wrapping
Primero(n, lat, lon) == ComoU16(lat * (n + 1) + lon)
SegundoSuma(n, lat, lon) == Primero(n, lat, lon) + ComoU16(n) + 1
Segundo(n, lat, lon) == ComoU16(SegundoSuma(n, lat, lon))

\* some u16 addition of the iteration (lat, lon) exceeds u16::MAX
Desborda(n, lat, lon) ==
    \/ Primero(n, lat, lon) + ComoU16(n) > 65535
    \/ SegundoSuma(n, lat, lon) > 65535
    \/ Primero(n, lat, lon) + 1 > 65535
    \/ Segundo(n, lat, lon) + 1 > 65535

\* the six indices pushed for (lat, lon), with wrapping additions
IndicesDe(n, lat, lon) ==
    {Primero(n, lat, lon), Segundo(n, lat, lon), ComoU16(Primero(n, lat, lon) + 1),
     ComoU16(Segundo(n, lat, lon) + 1)}

\* latitud as f32 * PI / subdivisiones as f32 (and the same for phi) is NaN or
\* infinite when subdivisiones = 0, and so are the sines and cosines taken of it
CoordenadasNaN(n) == n = 0

EsferaSinUso ==
    /\ perfil = "debug"
    /\ esfera = [subdivisiones |-> 1, fase |-> "retorno", latitud |-> 0,
                 num_vertices |-> 0, vertices_nan |-> FALSE,
                 num_indices |-> 0, fila_indices |-> {}]

InitEsfera ==
    /\ perfil \in {"debug", "release"}
    /\ \E n \in Subdivisiones :
          esfera = [subdivisiones |-> n, fase |-> "vertices", latitud |-> 0,
                    num_vertices |-> 0, vertices_nan |-> FALSE,
                    num_indices |-> 0, fila_indices |-> {}]

\* one iteration of `for latitud in 0..=subdivisiones`: subdivisiones + 1 pushes
FilaVertices ==
    /\ esfera.fase = "vertices"
    /\ esfera.latitud <= esfera.subdivisiones
    /\ esfera' = [esfera EXCEPT
                     !.num_vertices = @ + esfera.subdivisiones + 1,
                     !.vertices_nan = @ \/ CoordenadasNaN(esfera.subdivisiones),
                     !.latitud = @ + 1]
    /\ UNCHANGED perfil

\* the first loop ends, the second starts
FinVertices ==
    /\ esfera.fase = "vertices"
    /\ esfera.latitud > esfera.subdivisiones
    /\ esfera' = [esfera EXCEPT !.fase = "indices", !.latitud = 0]
    /\ UNCHANGED perfil

\* one iteration of `for lat in 0..subdivisiones`: six pushes per lon, or the
\* overflow panic of a build with overflow checks
FilaIndices ==
    /\ esfera.fase = "indices"
    /\ esfera.latitud < esfera.subdivisiones
    /\ LET n == esfera.subdivisiones
           lat == esfera.latitud
           lons == 0..(n - 1)
       IN  IF perfil = "debug" /\ \E lon \in lons : Desborda(n, lat, lon)
           THEN esfera' = [esfera EXCEPT !.fase = "panic"]
           ELSE esfera' = [esfera EXCEPT
                             !.num_indices = @ + 6 * n,
                             !.fila_indices = UNION {IndicesDe(n, lat, lon) : lon \in lons},
                             !.latitud = @ + 1]
    /\ UNCHANGED perfil

\* (vertices, indices) is returned
Retorno ==
    /\ esfera.fase = "indices"
    /\ esfera.latitud >= esfera.subdivisiones
    /\ esfera' = [esfera EXCEPT !.fase = "retorno"]
    /\ UNCHANGED perfil

(***************************************************************************)
(* EstadoAplicacion: redimensionar, procesar_mouse_click and               *)
(* procesar_movimiento_mouse.  Cursor coordinates are counted in units of  *)
(* 100 physical pixels and angles in units of 0.5 rad, so that             *)
(* delta * 0.005 is the difference of two coordinates.                     *)
(***************************************************************************)
\* the bound of .clamp(-1.5, 1.5), in units of 0.5 rad
LimitePitch == 3

Tamanos == [width : 0..MaxLado, height : 0..MaxLado]

Posiciones == [x : 0..MaxPos, y : 0..MaxPos]

Ninguna == [hay |-> FALSE, x |-> 0, y |-> 0]
Alguna(posicion) == [hay |-> TRUE, x |-> posicion.x, y |-> posicion.y]

\* u32 as f32: exact up to 2^24, rounded to a multiple of 2 above
ComoF32(v) == IF v <= 16777216 THEN v ELSE 2 * ((v + 1) \div 2)

\* the pitch assigned without .clamp
SinClamp(v) == v

\* v.clamp(-1.5, 1.5)
Clamp(v) == IF v < -LimitePitch THEN -LimitePitch ELSE IF v > LimitePitch THEN LimitePitch ELSE v

\* the fields that inicializar sets from ventana.inner_size()
InitEntrada ==
    /\ \E t \in Tamanos :
          /\ t.width > 0 /\ t.height > 0
          /\ tamano_ventana = t
          /\ configuracion = t
          /\ dimension_pantalla = <<ComoF32(t.width), ComoF32(t.height)>>
          /\ superficie = [width |-> t.width, height |-> t.height, valida |-> TRUE]
          /\ ultimo_valido = t
    /\ mouse_presionado = FALSE
    /\ posicion_mouse = Ninguna
    /\ rotacion_camara = <<0, 0>>
    /\ configure_llamado = TRUE

EntradaSinUso ==
    /\ tamano_ventana = [width |-> 1, height |-> 1]
    /\ configuracion = [width |-> 1, height |-> 1]
    /\ dimension_pantalla = <<1, 1>>
    /\ superficie = [width |-> 1, height |-> 1, valida |-> TRUE]
    /\ ultimo_valido = [width |-> 1, height |-> 1]
    /\ mouse_presionado = FALSE
    /\ posicion_mouse = Ninguna
    /\ rotacion_camara = <<0, 0>>
    /\ configure_llamado = TRUE

\* redimensionar storing the size when width > 0 or height > 0
RedimensionarSiAlguno(nuevo_tamano) ==
    /\ IF nuevo_tamano.width > 0 \/ nuevo_tamano.height > 0
       THEN /\ tamano_ventana' = nuevo_tamano
            /\ configuracion' = nuevo_tamano
            /\ superficie' = [width |-> nuevo_tamano.width, height |-> nuevo_tamano.height,
                              valida |-> TRUE]
            /\ dimension_pantalla' = <<ComoF32(nuevo_tamano.width), ComoF32(nuevo_tamano.height)>>
            /\ configure_llamado' = TRUE
       ELSE /\ UNCHANGED <<tamano_ventana, configuracion, superficie, dimension_pantalla>>
            /\ configure_llamado' = FALSE
    /\ ultimo_valido' = IF nuevo_tamano.width > 0 /\ nuevo_tamano.height > 0
                        THEN nuevo_tamano ELSE ultimo_valido
    /\ UNCHANGED <<mouse_presionado, posicion_mouse, rotacion_camara>>

\* EstadoAplicacion::redimensionar
Redimensionar(nuevo_tamano) ==
    /\ IF nuevo_tamano.width > 0 /\ nuevo_tamano.height > 0
       THEN /\ tamano_ventana' = nuevo_tamano
            /\ configuracion' = nuevo_tamano
            /\ superficie' = [width |-> configuracion'.width, height |-> configuracion'.height,
                              valida |-> TRUE]
            /\ dimension_pantalla' = <<ComoF32(nuevo_tamano.width), ComoF32(nuevo_tamano.height)>>
            /\ configure_llamado' = TRUE
       ELSE /\ UNCHANGED <<tamano_ventana, configuracion, superficie, dimension_pantalla>>
            /\ configure_llamado' = FALSE
    /\ ultimo_valido' = IF nuevo_tamano.width > 0 /\ nuevo_tamano.height > 0
                        THEN nuevo_tamano ELSE ultimo_valido
    /\ UNCHANGED <<mouse_presionado, posicion_mouse, rotacion_camara>>

\* EstadoAplicacion::procesar_mouse_click
ProcesarMouseClick(presionado) ==
    /\ mouse_presionado' = presionado
    /\ UNCHANGED <<tamano_ventana, configuracion, dimension_pantalla, superficie,
                   posicion_mouse, rotacion_camara, configure_llamado, ultimo_valido>>

\* the rotation left when the offset is applied whether or not the button is pressed
RotacionTrasSinBoton(posicion) ==
    IF posicion_mouse.hay
    THEN LET delta_x == posicion.x - posicion_mouse.x
             delta_y == posicion.y - posicion_mouse.y
         IN  <<rotacion_camara[1] + delta_x, Clamp(rotacion_camara[2] - delta_y)>>
    ELSE rotacion_camara

\* the rotation procesar_movimiento_mouse leaves
RotacionTras(posicion) ==
    IF mouse_presionado /\ posicion_mouse.hay
    THEN LET delta_x == posicion.x - posicion_mouse.x
             delta_y == posicion.y - posicion_mouse.y
         IN  <<rotacion_camara[1] + delta_x, Clamp(rotacion_camara[2] - delta_y)>>
    ELSE rotacion_camara

\* EstadoAplicacion::procesar_movimiento_mouse
ProcesarMovimientoMouse(posicion) ==
    /\ rotacion_camara' = RotacionTras(posicion)
    /\ rotacion_camara'[1] \in -MaxYaw..MaxYaw
    /\ posicion_mouse' = Alguna(posicion)
    /\ UNCHANGED <<tamano_ventana, configuracion, dimension_pantalla, superficie,
                   mouse_presionado, configure_llamado, ultimo_valido>>

NextEntrada ==
    \/ \E t \in Tamanos : Redimensionar(t)
    \/ \E presionado \in BOOLEAN : ProcesarMouseClick(presionado)
    \/ \E posicion \in Posiciones : ProcesarMovimientoMouse(posicion)

(***************************************************************************)
(* The event loop of main and the RedrawRequested handler                  *)
(* (EstadoAplicacion::actualizar, then EstadoAplicacion::renderizar).      *)
(***************************************************************************)
\* `for i in 0..200`
NumEstrellas == 200

\* configuracion_planetas[k][3] as u32
TipoPlaneta == <<1, 2, 4, 6>>

\* datos_uniformes.tipo_render, set once in inicializar
TipoInicial == 1

\* keys of KeyboardInput events: Escape and the keys of select-shader(0..7)
TeclasDeShader ==
    <<"Digit0", "Digit1", "Digit2", "Digit3", "Digit4", "Digit5", "Digit6", "Digit7">>

Teclas == {"Escape"} \cup {TeclasDeShader[k] : k \in DOMAIN TeclasDeShader}

\* the shader index a digit key selects
ShaderDe(tecla) == CHOOSE n \in 0..7 : TeclasDeShader[n + 1] = tecla

PixelesTextura == 1..NumPixeles

Indefinido == [origen |-> "indefinido", tipo |-> -1, cuadro |-> "anterior"]
Limpiado == [origen |-> "limpieza", tipo |-> -1, cuadro |-> "actual"]
Dibujado(t) == [origen |-> "dibujo", tipo |-> t, cuadro |-> "actual"]

\* the texture handed out by get_current_texture holds what an earlier frame left
Envejecer(t) == [p \in DOMAIN t |-> [t[p] EXCEPT !.cuadro = "anterior"]]

\* begin_render_pass with LoadOp::Load
begin_render_pass_load == [limpiar |-> FALSE, dibujos |-> <<>>]

\* begin_render_pass with LoadOp::Clear: the pass clears the attachment when it starts
begin_render_pass == [limpiar |-> TRUE, dibujos |-> <<>>]

\* the tipo_render a draw reads: that of the buffer its bind group names, as
\* written by the last write_buffer ordered before the submit
TipoLeido(grupo) ==
    IF grupo = 0 THEN buffer_uniformes.tipo_render ELSE buffers_planeta[grupo].tipo_render

\* the star whose pos_planeta and factor_escala a draw through
\* grupo_bind_uniformes reads: buffer_uniformes holds one set of values when the
\* submitted pass runs, the one of the last write_buffer
EstrellaLeida == buffer_uniformes.estrella

\* the textures the submitted pass can leave: the load operation, then every
\* draw replaces the pixels its triangles cover (BlendState::REPLACE, no depth test)
TexturasPosibles ==
    LET base == IF codificador.limpiar THEN [p \in PixelesTextura |-> Limpiado] ELSE textura
        dibujados == {Dibujado(TipoLeido(codificador.dibujos[k])) :
                         k \in DOMAIN codificador.dibujos}
    IN  {t \in [PixelesTextura -> {base[p] : p \in PixelesTextura} \cup dibujados] :
            \A p \in PixelesTextura : t[p] = base[p] \/ t[p] \in dibujados}

LoopSinUso ==
    /\ pc = "salida"
    /\ redraw_solicitado = FALSE
    /\ buffer_uniformes = [tipo_render |-> TipoInicial, estrella |-> -1]
    /\ buffers_planeta = <<>>
    /\ codificador = [limpiar |-> FALSE, dibujos |-> <<>>]
    /\ indice_bucle = 0
    /\ textura = [p \in PixelesTextura |-> Indefinido]
    /\ pantalla = [p \in PixelesTextura |-> Indefinido]
    /\ presentado = FALSE
    /\ seleccion = -1
    /\ tipos_usados = {}

\* EstadoAplicacion::inicializar, then loop_eventos.run
InitLoop ==
    /\ pc = "espera"
    /\ redraw_solicitado = FALSE
    /\ buffer_uniformes = [tipo_render |-> TipoInicial, estrella |-> -1]
    /\ buffers_planeta = <<>>
    /\ codificador = [limpiar |-> FALSE, dibujos |-> <<>>]
    /\ indice_bucle = 0
    /\ textura = [p \in PixelesTextura |-> Indefinido]
    /\ pantalla = [p \in PixelesTextura |-> Indefinido]
    /\ presentado = FALSE
    /\ seleccion = -1
    /\ tipos_usados = {}

\* CloseRequested, or KeyboardInput with Escape pressed: control_flujo.exit()
Salir ==
    /\ pc = "espera"
    /\ pc' = "salida"
    /\ UNCHANGED <<redraw_solicitado, buffer_uniformes, buffers_planeta, codificador, indice_bucle,
                   textura, pantalla, presentado, seleccion, tipos_usados>>

\* any other KeyboardInput falls to `_ => {}`; a pressed digit is the
\* select-shader command of the input layer, which the history records
TeclaIgnorada(tecla, presionada) ==
    /\ pc = "espera"
    /\ ~(tecla = "Escape" /\ presionada)
    /\ IF presionada /\ tecla # "Escape"
       THEN seleccion' = ShaderDe(tecla) /\ tipos_usados' = {}
       ELSE UNCHANGED <<seleccion, tipos_usados>>
    /\ UNCHANGED <<pc, redraw_solicitado, buffer_uniformes, buffers_planeta, codificador,
                   indice_bucle, textura, pantalla, presentado>>

\* Event::AboutToWait: ventana.request_redraw()
AboutToWait ==
    /\ pc = "espera"
    /\ redraw_solicitado' = TRUE
    /\ UNCHANGED <<pc, buffer_uniformes, buffers_planeta, codificador, indice_bucle,
                   textura, pantalla, presentado, seleccion, tipos_usados>>

\* WindowEvent::RedrawRequested: estado.actualizar() writes datos_uniformes to
\* buffer_uniformes; renderizar follows
Actualizar ==
    /\ pc = "espera"
    /\ redraw_solicitado
    /\ redraw_solicitado' = FALSE
    /\ buffer_uniformes' = [tipo_render |-> TipoInicial, estrella |-> -1]
    /\ pc' = "renderizar"
    /\ UNCHANGED <<buffers_planeta, codificador, indice_bucle, textura, pantalla, presentado,
                   seleccion, tipos_usados>>

\* renderizar: get_current_texture succeeds, the encoder is created
ObtenerTextura ==
    /\ pc = "renderizar"
    /\ textura' = Envejecer(textura)
    /\ codificador' = [limpiar |-> FALSE, dibujos |-> <<>>]
    /\ pc' = "datos_planetas"
    /\ UNCHANGED <<redraw_solicitado, buffer_uniformes, buffers_planeta, indice_bucle, pantalla,
                   presentado, seleccion, tipos_usados>>

\* the variants of wgpu::SurfaceError
Errores == {"Timeout", "Outdated", "Lost", "OutOfMemory"}

\* renderizar: get_current_texture fails and `?` returns the error to main;
\* a Lost error reports a surface that cannot be used until it is configured
ErrorDeSuperficie(error) ==
    /\ pc = "renderizar"
    /\ pc' = error
    /\ superficie' = [superficie EXCEPT !.valida = (error # "Lost")]
    /\ UNCHANGED <<redraw_solicitado, buffer_uniformes, buffers_planeta, codificador, indice_bucle,
                   textura, pantalla, presentado, seleccion, tipos_usados>>
    /\ UNCHANGED <<tamano_ventana, configuracion, dimension_pantalla, mouse_presionado,
                   posicion_mouse, rotacion_camara, configure_llamado, ultimo_valido>>

\* the arms of match estado.renderizar() with the Lost arm printing the error like the last one
ManejarErrorSinConfigurar ==
    /\ pc \in Errores
    /\ pc' = IF pc = "OutOfMemory" THEN "salida" ELSE "espera"
    /\ UNCHANGED varsEntrada
    /\ UNCHANGED <<redraw_solicitado, buffer_uniformes, buffers_planeta, codificador, indice_bucle,
                   textura, pantalla, presentado, seleccion, tipos_usados>>

\* the arms of match estado.renderizar(): Lost calls redimensionar with
\* tamano_ventana, OutOfMemory exits, any other error is printed
ManejarError ==
    /\ pc \in Errores
    /\ pc' = IF pc = "OutOfMemory" THEN "salida" ELSE "espera"
    /\ IF pc = "Lost" THEN Redimensionar(tamano_ventana) ELSE UNCHANGED varsEntrada
    /\ UNCHANGED <<redraw_solicitado, buffer_uniformes, buffers_planeta, codificador, indice_bucle,
                   textura, pantalla, presentado, seleccion, tipos_usados>>

\* WindowEvent::Resized: estado.redimensionar(*tamano_fisico)
Resized(tamano_fisico) ==
    /\ pc = "espera"
    /\ Redimensionar(tamano_fisico)
    /\ UNCHANGED varsLoop

\* WindowEvent::CursorMoved: estado.procesar_movimiento_mouse(*position)
CursorMoved(position) ==
    /\ pc = "espera"
    /\ ProcesarMovimientoMouse(position)
    /\ UNCHANGED varsLoop

\* WindowEvent::MouseInput handled while the RedrawRequested handler is running
MouseInputEnCuadro(presionado) ==
    /\ ProcesarMouseClick(presionado)
    /\ UNCHANGED varsLoop

\* WindowEvent::MouseInput with the left button: estado.procesar_mouse_click(state == Pressed)
MouseInput(presionado) ==
    /\ pc = "espera"
    /\ ProcesarMouseClick(presionado)
    /\ UNCHANGED varsLoop

\* renderizar: one uniform buffer and bind group per planet, created with contents
DatosPlanetas ==
    /\ pc = "datos_planetas"
    /\ buffers_planeta' = [k \in 1..Len(TipoPlaneta) |-> [tipo_render |-> TipoPlaneta[k]]]
    /\ pc' = "pase"
    /\ UNCHANGED <<redraw_solicitado, buffer_uniformes, codificador, indice_bucle, textura, pantalla,
                   presentado, seleccion, tipos_usados>>

\* renderizar: begin_render_pass, set_pipeline, set_vertex_buffer, set_index_buffer
PaseDeRender ==
    /\ pc = "pase"
    /\ codificador' = begin_render_pass
    /\ indice_bucle' = 0
    /\ pc' = "estrellas"
    /\ UNCHANGED <<redraw_solicitado, buffer_uniformes, buffers_planeta, textura, pantalla,
                   presentado, seleccion, tipos_usados>>

\* renderizar: one iteration of the star loop: write_buffer to the shared
\* buffer, set_bind_group, draw_indexed
DibujarEstrella ==
    /\ pc = "estrellas"
    /\ indice_bucle < NumEstrellas
    /\ buffer_uniformes' = [tipo_render |-> 7, estrella |-> indice_bucle]
    /\ codificador' = [codificador EXCEPT !.dibujos = Append(@, 0)]
    /\ IF indice_bucle + 1 < NumEstrellas
       THEN indice_bucle' = indice_bucle + 1 /\ pc' = pc
       ELSE indice_bucle' = 1 /\ pc' = "planetas"
    /\ UNCHANGED <<redraw_solicitado, buffers_planeta, textura, pantalla, presentado,
                   seleccion, tipos_usados>>

\* renderizar: one iteration of the planet loop: write_buffer to the planet's
\* own buffer, set_bind_group, draw_indexed
DibujarPlaneta ==
    /\ pc = "planetas"
    /\ indice_bucle <= Len(TipoPlaneta)
    /\ buffers_planeta' = [buffers_planeta EXCEPT ![indice_bucle] = [tipo_render |-> TipoPlaneta[indice_bucle]]]
    /\ codificador' = [codificador EXCEPT !.dibujos = Append(@, indice_bucle)]
    /\ IF indice_bucle + 1 <= Len(TipoPlaneta)
       THEN indice_bucle' = indice_bucle + 1 /\ pc' = pc
       ELSE indice_bucle' = 0 /\ pc' = "submit"
    /\ UNCHANGED <<redraw_solicitado, buffer_uniformes, textura, pantalla, presentado,
                   seleccion, tipos_usados>>

\* renderizar: cola_comandos.submit: the pass runs on the texture
Submit ==
    /\ pc = "submit"
    /\ textura' \in TexturasPosibles
    /\ tipos_usados' = tipos_usados \cup
          {TipoLeido(codificador.dibujos[k]) : k \in DOMAIN codificador.dibujos}
    /\ pc' = "present"
    /\ UNCHANGED <<redraw_solicitado, buffer_uniformes, buffers_planeta, codificador, indice_bucle,
                   pantalla, presentado, seleccion>>

\* renderizar: salida.present(), Ok(()); the handler ends
Present ==
    /\ pc = "present"
    /\ pantalla' = textura
    /\ presentado' = TRUE
    /\ pc' = "espera"
    /\ UNCHANGED <<redraw_solicitado, buffer_uniformes, buffers_planeta, codificador, indice_bucle,
                   textura, seleccion, tipos_usados>>

\* the window sizes and cursor positions delivered while frames are followed step by step
TamanosCuadro == {[width |-> 1, height |-> 1], [width |-> 2, height |-> 1]}
PosicionesCuadro == {[x |-> 0, y |-> 0]}

\* every event of the loop but the keys that fall to `_ => {}`
NextEventos ==
    \/ Salir /\ UNCHANGED varsEntrada
    \/ AboutToWait /\ UNCHANGED varsEntrada
    \/ \E tamano_fisico \in TamanosCuadro : Resized(tamano_fisico)
    \/ \E position \in PosicionesCuadro : CursorMoved(position)
    \/ \E presionado \in BOOLEAN : MouseInput(presionado)
    \/ Actualizar /\ UNCHANGED varsEntrada
    \/ ObtenerTextura /\ UNCHANGED varsEntrada
    \/ \E error \in Errores : ErrorDeSuperficie(error)
    \/ ManejarError
    \/ DatosPlanetas /\ UNCHANGED varsEntrada
    \/ PaseDeRender /\ UNCHANGED varsEntrada
    \/ DibujarEstrella /\ UNCHANGED varsEntrada
    \/ DibujarPlaneta /\ UNCHANGED varsEntrada
    \/ Submit /\ UNCHANGED varsEntrada
    \/ Present /\ UNCHANGED varsEntrada

NextLoop ==
    \/ \E tecla \in Teclas, presionada \in BOOLEAN :
          TeclaIgnorada(tecla, presionada) /\ UNCHANGED varsEntrada
    \/ NextEventos

InitSpecLoop ==
    /\ InitLoop /\ InitEntrada /\ tamano_ventana \in TamanosCuadro
    /\ BufferSinUso /\ OrdenSinUso /\ ColorSinUso /\ EsferaSinUso

NextSpecLoop == NextLoop /\ UNCHANGED <<varsBuffer, varsOrden, varsColor, varsEsfera>>

SpecLoop == InitSpecLoop /\ [][NextSpecLoop]_vars

\* the steps of the RedrawRequested handler, which runs to its end once started
PasoDeManejador == NextSpecLoop /\ pc # "espera"

\* Event::AboutToWait, which winit emits whenever no event is left to handle
PasoAboutToWait == AboutToWait /\ UNCHANGED <<varsEntrada, varsBuffer, varsOrden, varsColor, varsEsfera>>

\* WindowEvent::RedrawRequested, which winit delivers after request_redraw
PasoRedrawRequested == Actualizar /\ UNCHANGED <<varsEntrada, varsBuffer, varsOrden, varsColor, varsEsfera>>

\* the ignored keys change no field of the program and are left out where
\* progress is checked
NextSpecLoopJusto == NextEventos /\ UNCHANGED <<varsBuffer, varsOrden, varsColor, varsEsfera>>

SpecLoopJusto ==
    /\ InitSpecLoop
    /\ [][NextSpecLoopJusto]_vars
    /\ WF_vars(PasoDeManejador)
    /\ WF_vars(PasoAboutToWait)
    /\ WF_vars(PasoRedrawRequested)

(***************************************************************************)
(* Specifications of the pure functions.                                   *)
(***************************************************************************)
NextColor == AHexadecimal /\ UNCHANGED <<varsEntrada, varsBuffer, varsOrden, varsEsfera, varsLoop>>

InitSpecColor == InitColor /\ BufferSinUso /\ OrdenSinUso /\ EsferaSinUso /\ LoopSinUso /\ EntradaSinUso

SpecColor == InitSpecColor /\ [][NextColor]_vars

NextEsfera ==
    /\ FilaVertices \/ FinVertices \/ FilaIndices \/ Retorno
    /\ UNCHANGED <<varsBuffer, varsOrden, varsColor, varsLoop, varsEntrada>>

InitSpecEsfera == InitEsfera /\ BufferSinUso /\ OrdenSinUso /\ ColorSinUso /\ LoopSinUso /\ EntradaSinUso

SpecEsfera == InitSpecEsfera /\ [][NextEsfera]_vars

(***************************************************************************)
(* Specification of EstadoAplicacion under arbitrary input events.         *)
(***************************************************************************)
InitSpecEntrada ==
    InitEntrada /\ BufferSinUso /\ OrdenSinUso /\ ColorSinUso /\ EsferaSinUso /\ LoopSinUso

NextSpecEntrada ==
    NextEntrada /\ UNCHANGED <<varsBuffer, varsOrden, varsColor, varsEsfera, varsLoop>>

SpecEntrada == InitSpecEntrada /\ [][NextSpecEntrada]_vars

\* C14: after any sequence of press, release and cursor-move events from the
\* initial state the pitch rotacion_camara[1] lies in [-1.5, 1.5]; the yaw
\* rotacion_camara[0] is the plain sum of the horizontal offsets and leaves
\* that interval.
C14_PitchAcotado ==
    /\ rotacion_camara[2] >= -LimitePitch
    /\ rotacion_camara[2] <= LimitePitch

\* the pitch was held at -1.5 rad while the yaw of the same drags went past 1.5 rad
C14_Witness ==
    /\ rotacion_camara[1] > LimitePitch
    /\ rotacion_camara[2] = -LimitePitch

\* C15: a cursor move changes rotacion_camara only when the button is pressed
\* and a previous position is recorded, and then by the offset from that
\* recorded position; every cursor move, pressed or not, records the new
\* position as posicion_mouse.
C15_MovimientoMouse ==
    [][\A posicion \in Posiciones :
          ProcesarMovimientoMouse(posicion) =>
              /\ posicion_mouse' = Alguna(posicion)
              /\ (~mouse_presionado \/ ~posicion_mouse.hay) => rotacion_camara' = rotacion_camara
              /\ (mouse_presionado /\ posicion_mouse.hay) =>
                     /\ rotacion_camara'[1] = rotacion_camara[1] + (posicion.x - posicion_mouse.x)
                     /\ rotacion_camara'[2] =
                            Clamp(rotacion_camara[2] - (posicion.y - posicion_mouse.y))
              /\ mouse_presionado' = mouse_presionado]_vars

\* a drag has rotated the camera and the cursor position is recorded
C15_Witness ==
    /\ mouse_presionado
    /\ posicion_mouse = Alguna([x |-> MaxPos, y |-> 0])
    /\ rotacion_camara = <<MaxPos, 1>>

\* the sizes stored in EstadoAplicacion and in the surface agree with the last valid request
TamanosDeAcuerdo ==
    /\ tamano_ventana = ultimo_valido
    /\ configuracion.width = ultimo_valido.width
    /\ configuracion.height = ultimo_valido.height
    /\ dimension_pantalla = <<ultimo_valido.width, ultimo_valido.height>>
    /\ superficie.width = ultimo_valido.width
    /\ superficie.height = ultimo_valido.height

\* C16: tamano_ventana, configuracion.width/height and dimension_pantalla always
\* describe the same size, the most recent requested size with width > 0 and
\* height > 0; a redimensionar call with width = 0 or height = 0 changes none
\* of them and does not configure the surface; a stored size that is not zero
\* in either dimension never becomes zero in one.
C16_TamanoCoherente ==
    /\ []TamanosDeAcuerdo
    /\ [][\A t \in Tamanos :
             Redimensionar(t) =>
                 /\ (t.width = 0 \/ t.height = 0) =>
                        /\ UNCHANGED <<tamano_ventana, configuracion, dimension_pantalla,
                                       superficie>>
                        /\ ~configure_llamado'
                 /\ (tamano_ventana.width > 0 /\ tamano_ventana.height > 0) =>
                        (tamano_ventana'.width > 0 /\ tamano_ventana'.height > 0)]_vars

\* a size was stored and a later call with a zero dimension left it in place
C16_Witness ==
    /\ tamano_ventana = [width |-> MaxLado, height |-> 1]
    /\ dimension_pantalla = <<MaxLado, 1>>
    /\ ~configure_llamado

(***************************************************************************)
(* Specification of a BufferDePantalla under arbitrary calls.              *)
(***************************************************************************)
Init == InitBuffer /\ OrdenSinUso /\ ColorSinUso /\ EsferaSinUso /\ LoopSinUso /\ EntradaSinUso

Next == NextBuffer /\ UNCHANGED <<varsEntrada, varsOrden, varsColor, varsEsfera, varsLoop>>

Spec == Init /\ [][Next]_vars

InitSpecOrden == InitOrden /\ BufferSinUso /\ ColorSinUso /\ EsferaSinUso /\ LoopSinUso /\ EntradaSinUso

NextSpecOrden == NextOrden /\ UNCHANGED <<varsEntrada, varsBuffer, varsColor, varsEsfera, varsLoop>>

SpecOrden == InitSpecOrden /\ [][NextSpecOrden]_vars

(***************************************************************************)
(* Properties of BufferDePantalla (checked under Spec).                    *)
(***************************************************************************)

\* C1: right after limpiar, every entry of buffer_colores equals the current
\* background colour and every entry of buffer_profundidad is +infinity,
\* whatever calls were made before.
C1_LimpiarDejaFondo ==
    ultima_limpieza # "ninguna" =>
        \A i \in Indices(fb) :
            /\ fb.buffer_colores[i] = fb.color_fondo
            /\ fb.buffer_profundidad[i] = F32_INFINITY

\* limpiar has just overwritten written pixels with a background colour other
\* than the initial one
C1_Witness ==
    /\ ultima_limpieza = "sobre_escrito"
    /\ fb.ancho * fb.alto = 2
    /\ fb.color_fondo = 16777215
    /\ fb.color_actual = 0

\* C2 as stated: every pixel that received an in-range dibujar_punto call since
\* the last clear holds the minimum of the depths passed and the colour that
\* was current at the call with that depth.
C2_Original ==
    \A i \in Indices(fb) :
        llamadas[i] =>
            /\ fb.buffer_profundidad[i] = prof_minima[i]
            /\ fb.buffer_colores[i] = color_minimo[i]

\* C2 amended: every pixel that received, since the last clear, an in-range
\* dibujar_punto call with a depth below +infinity holds the minimum of the
\* depths passed (NaN ignored) and the colour that was current at the first
\* call with that depth.
C2_MinimoGana ==
    \A i \in Indices(fb) :
        (llamadas[i] /\ prof_minima[i] \in 0..MaxProf) =>
            /\ fb.buffer_profundidad[i] = prof_minima[i]
            /\ fb.buffer_colores[i] = color_minimo[i]

\* a pixel holds depth 0 in the colour 0x000000 although color_actual is now
\* 0xFFFFFF and the background is 0xFFFFFF: a later or equal-depth write lost
C2_Witness ==
    \E i \in Indices(fb) :
        /\ llamadas[i]
        /\ prof_minima[i] = 0
        /\ fb.buffer_colores[i] = 0
        /\ fb.color_actual = 16777215
        /\ fb.color_fondo = 16777215

\* C4: a call other than limpiar leaves each stored depth equal to or smaller
\* than it was before the call.
C4_ProfundidadNoCrece ==
    [][ultima_limpieza' = "ninguna" =>
          \A i \in Indices(fb) :
              /\ fb'.buffer_profundidad[i] # F32_NAN
              /\ fb'.buffer_profundidad[i] <= fb.buffer_profundidad[i]]_vars

\* since the last clear a pixel went from +infinity down to depth 0 while
\* another pixel that was called stayed at +infinity
C4_Witness ==
    /\ ultima_limpieza = "ninguna"
    /\ \E i, j \in Indices(fb) :
          /\ llamadas[i] /\ fb.buffer_profundidad[i] = 0
          /\ llamadas[j] /\ fb.buffer_profundidad[j] = F32_INFINITY

\* C5: an in-range dibujar_punto(x, y, prof) sets colour and depth of the pixel
\* to (color_actual, prof) when prof is strictly less than the stored depth and
\* leaves both unchanged otherwise (equal, greater, +infinity on a cleared
\* pixel, NaN).
C5_SoloSiMenor ==
    [][\A x \in 0..(fb.ancho - 1), y \in 0..(fb.alto - 1), prof \in Profundidades :
          DibujarPunto(x, y, prof) =>
              LET i == y * fb.ancho + x
                  menor == prof # F32_NAN /\ prof < fb.buffer_profundidad[i]
              IN  IF menor
                  THEN /\ fb'.buffer_colores[i] = fb.color_actual
                       /\ fb'.buffer_profundidad[i] = prof
                  ELSE /\ fb'.buffer_colores[i] = fb.buffer_colores[i]
                       /\ fb'.buffer_profundidad[i] = fb.buffer_profundidad[i]]_vars

\* a call with prof = +infinity on a cleared pixel left the pixel in the
\* background colour while another colour was current
C5_Witness ==
    \E i \in Indices(fb) :
        /\ llamadas[i]
        /\ prof_minima[i] = F32_INFINITY
        /\ fb.buffer_profundidad[i] = F32_INFINITY
        /\ fb.buffer_colores[i] # color_minimo[i]

\* C11: dibujar_punto(x, y, prof) changes no entry of the two arrays other
\* than the one at index y * ancho + x, changes nothing at all when x >= ancho
\* or y >= alto, keeps the arrays at length ancho * alto, and the index of an
\* in-range call lies inside them.
C11_SoloUnPixel ==
    [][/\ \A x \in 0..(fb.ancho - 1), y \in 0..(fb.alto - 1), prof \in Profundidades :
             DibujarPunto(x, y, prof) =>
                 /\ fb'.ancho = fb.ancho /\ fb'.alto = fb.alto
                 /\ DOMAIN fb'.buffer_colores = Indices(fb)
                 /\ DOMAIN fb'.buffer_profundidad = Indices(fb)
                 /\ (y * fb.ancho + x) \in Indices(fb)
                 /\ \A i \in Indices(fb) \ {y * fb.ancho + x} :
                       /\ fb'.buffer_colores[i] = fb.buffer_colores[i]
                       /\ fb'.buffer_profundidad[i] = fb.buffer_profundidad[i]
       /\ fb' # fb =>
             \A x \in 0..fb.ancho, y \in 0..fb.alto, prof \in Profundidades :
                 (x = fb.ancho \/ y = fb.alto) => ~DibujarPunto(x, y, prof)]_vars

C11_Witness ==
    /\ fb.ancho = 1 /\ fb.alto = 2
    /\ llamadas[1] /\ fb.buffer_profundidad[1] = 0
    /\ ~llamadas[0] /\ fb.buffer_profundidad[0] = F32_INFINITY
    /\ fb.buffer_colores[0] # fb.buffer_colores[1]

(***************************************************************************)
(* Draw-order independence (checked under SpecOrden).                      *)
(***************************************************************************)
PixelPar == par.y * fb_ab.ancho + par.x

\* C3: once both writes are made in both orders, the two buffers hold the same
\* colours and depths, and whenever one of the two depths is smaller than the
\* other the pixel holds the colour and the depth of that write.
C3_OrdenIndiferente ==
    (pendientes_ab = <<>> /\ pendientes_ba = <<>>) =>
        /\ fb_ab.buffer_colores = fb_ba.buffer_colores
        /\ fb_ab.buffer_profundidad = fb_ba.buffer_profundidad
        /\ (par.prof_a # F32_NAN /\ par.prof_b # F32_NAN /\ par.prof_a < par.prof_b) =>
              /\ fb_ab.buffer_colores[PixelPar] = par.color_a
              /\ fb_ab.buffer_profundidad[PixelPar] = par.prof_a
        /\ (par.prof_a # F32_NAN /\ par.prof_b # F32_NAN /\ par.prof_b < par.prof_a) =>
              /\ fb_ab.buffer_colores[PixelPar] = par.color_b
              /\ fb_ab.buffer_profundidad[PixelPar] = par.prof_b

\* both orders are drawn, A is nearer and of another colour than B and than
\* the background, and the buffer in which A came last shows A
C3_Witness ==
    /\ pendientes_ab = <<>> /\ pendientes_ba = <<>>
    /\ par.prof_a = 0 /\ par.prof_b = 1
    /\ par.color_a # par.color_b
    /\ par.color_a # fb_ba.color_fondo
    /\ fb_ba.buffer_colores[PixelPar] = par.color_a

(***************************************************************************)
(* ColorRGB::a_hexadecimal (checked under SpecColor).                      *)
(***************************************************************************)

\* C10: a_hexadecimal returns rojo * 65536 + verde * 256 + azul, a value whose
\* bits 24..31 are zero and from which the three channels are recovered.
C10_Empaquetado ==
    hexadecimal # -1 =>
        /\ hexadecimal = color_rgb.rojo * 65536 + color_rgb.verde * 256 + color_rgb.azul
        /\ \A i \in 24..31 : Bit(hexadecimal, i) = 0
        /\ (hexadecimal \div 65536) % 256 = color_rgb.rojo
        /\ (hexadecimal \div 256) % 256 = color_rgb.verde
        /\ hexadecimal % 256 = color_rgb.azul

\* a colour with three different non-zero channels has been packed
C10_Witness ==
    /\ hexadecimal # -1
    /\ color_rgb = [rojo |-> 255, verde |-> 128, azul |-> 15]

(***************************************************************************)
(* generar_esfera (checked under SpecEsfera).                              *)
(***************************************************************************)

\* C6 as stated: for subdivisiones >= 1 generar_esfera returns, with
\* (n + 1)^2 vertices and 6 n^2 indices, and every index pushed is less than
\* the number of vertices.
C6_Original ==
    esfera.subdivisiones >= 1 =>
        /\ esfera.fase # "panic"
        /\ esfera.fase = "retorno" =>
              /\ esfera.num_vertices = (esfera.subdivisiones + 1) * (esfera.subdivisiones + 1)
              /\ esfera.num_indices = esfera.subdivisiones * esfera.subdivisiones * 6
        /\ \A k \in esfera.fila_indices : k < esfera.num_vertices

\* C7 as stated: generar_esfera(0) never returns a mesh.
C7_Original ==
    esfera.subdivisiones = 0 => esfera.fase # "retorno"

(***************************************************************************)
(* The event loop and renderizar (checked under SpecLoop).                 *)
(***************************************************************************)

\* C8 as stated: once a select-shader(N) key was pressed, the draws of every
\* frame submitted afterwards read tipo_render = N.
C8_Original ==
    (seleccion # -1 /\ tipos_usados # {}) => tipos_usados = {seleccion}

\* C9: the pass of a frame clears before its first draw is recorded, and a
\* presented frame shows in every pixel either the clear colour or a draw of
\* that same frame, never what an earlier frame or nothing had written.
C9_CuadroLimpio ==
    /\ codificador.dibujos # <<>> => codificador.limpiar
    /\ pc = "present" => \A p \in PixelesTextura : textura[p].cuadro = "actual"
    /\ presentado => \A p \in PixelesTextura : pantalla[p].cuadro = "actual"

\* a second frame is about to be presented in which a pixel drawn by the
\* frame still on screen is back to the clear colour
C9_Witness ==
    /\ pc = "present"
    /\ presentado
    /\ \E p \in PixelesTextura :
          pantalla[p].origen = "dibujo" /\ textura[p].origen = "limpieza"

\* the positions of the RedrawRequested handler in the order of the code
Pasos == <<"espera", "renderizar", "datos_planetas", "pase", "estrellas", "planetas",
           "submit", "present", "espera">>

\* C12: a frame is one sequential pass: renderizar starts only as actualizar
\* has written the uniforms, the pass goes through its steps in order, every
\* draw is recorded before the submit, present follows the submit, and the
\* state set by resize, cursor-move and mouse-button events does not change
\* from the start of actualizar to the end of renderizar.
C12_CuadroSecuencial ==
    [][/\ pc' # pc =>
             \/ \E i \in 1..(Len(Pasos) - 1) : pc = Pasos[i] /\ pc' = Pasos[i + 1]
             \/ pc = "renderizar" /\ pc' \in Errores
             \/ pc \in Errores \cup {"espera"} /\ pc' \in {"espera", "salida"}
       /\ (pc' = "renderizar" /\ pc # "renderizar") =>
             buffer_uniformes' = [tipo_render |-> TipoInicial, estrella |-> -1]
       /\ (pc' = "submit" /\ pc # "submit") =>
             /\ codificador'.limpiar
             /\ Len(codificador'.dibujos) = NumEstrellas + Len(TipoPlaneta)
       /\ (pantalla' # pantalla \/ presentado' # presentado) => (pc = "present" /\ pc' = "espera")
       /\ <<tamano_ventana, configuracion, dimension_pantalla, mouse_presionado, posicion_mouse,
            rotacion_camara>>' #
          <<tamano_ventana, configuracion, dimension_pantalla, mouse_presionado, posicion_mouse,
            rotacion_camara>> => (pc = "espera" /\ pc' = "espera")]_vars

\* a later frame is being recorded after a cursor move and a button press
C12_Witness ==
    /\ pc = "estrellas"
    /\ presentado
    /\ mouse_presionado
    /\ posicion_mouse.hay
    /\ tamano_ventana = [width |-> 2, height |-> 1]

\* C13 as stated: the draw of star i runs with the uniform values written for
\* star i, for each of the 200 stars of a submitted frame.
C13_Original ==
    pc = "present" =>
        \A k \in 1..NumEstrellas : codificador.dibujos[k] = 0 => EstrellaLeida = k - 1

\* C17: a failed renderizar ends the event loop exactly when the error is
\* OutOfMemory; on Lost the surface is configured with tamano_ventana and the
\* loop goes on; on any other error the loop goes on with nothing changed;
\* AboutToWait requests a redraw, and after an error that does not exit a
\* further frame is started unless the loop is exited by a close or Escape.
C17_ErroresDeRender ==
    /\ [][/\ (pc \in Errores /\ pc' # pc) =>
                 /\ (pc' = "salida") <=> (pc = "OutOfMemory")
                 /\ pc # "OutOfMemory" => pc' = "espera"
                 /\ pc = "Lost" =>
                        /\ superficie' = [width |-> tamano_ventana.width,
                                          height |-> tamano_ventana.height, valida |-> TRUE]
                        /\ configure_llamado'
                        /\ UNCHANGED <<tamano_ventana, configuracion, dimension_pantalla>>
                 /\ pc # "Lost" => UNCHANGED varsEntrada
                 /\ UNCHANGED <<redraw_solicitado, buffer_uniformes, buffers_planeta, codificador,
                                textura, pantalla, presentado>>
          /\ (pc = "espera" /\ pc' = "espera" /\ redraw_solicitado' # redraw_solicitado) =>
                 redraw_solicitado']_vars
    /\ [](pc = "espera" => superficie.valida)
    /\ (pc \in Errores \ {"OutOfMemory"}) ~> (pc = "renderizar" \/ pc = "salida")

\* after a presented frame, renderizar has failed with Lost and
\* the match in main is about to handle it
C17_Witness ==
    /\ pc = "Lost"
    /\ presentado
    /\ ~superficie.valida
    /\ tamano_ventana = [width |-> 2, height |-> 1]

====
